---- MODULE Spec2Model ----
(***************************************************************************)
(* The session layer of lgtv-rs: LgtvRemote (src/src/remote.rs) with its   *)
(* reader and writer tasks, its correlation map and its command counter,   *)
(* and the pairing client LgtvAuth (src/src/auth.rs).                      *)
(*                                                                         *)
(* One run of the program drives either an LgtvRemote or an LgtvAuth, or   *)
(* it scans for devices with scan_for_tvs (src/src/scan.rs); main.rs picks *)
(* one per sub-command and `mode` records which. The wake call on() of     *)
(* LgtvRemote uses no connection and is modelled beside the session.       *)
(*                                                                         *)
(* Strings the code builds (correlation ids) are sequences of one-letter   *)
(* strings, so that formatting is computed and not assumed injective.      *)
(* An Option<T> is a sequence of length 0 (None) or 1 (Some).              *)
(***************************************************************************)
EXTENDS Integers, Sequences, FiniteSets, TLC

VARIABLES
    mode,               \* "remote", "auth" or "scan": what this run drives
    client_key,         \* LgtvRemote.client_key
    command_count,      \* LgtvRemote.command_count (u32)
    handshake_done,     \* LgtvRemote.handshake_done
    response_channels,  \* LgtvRemote.response_channels: id -> index into chan
    ws_tx,              \* LgtvRemote.ws_tx: 0 (None) or the connection it feeds
    lock,               \* holder of the response_channels mutex: 0 or a reader
    chan,               \* the one-slot channels made by send_command, by call
    conns,              \* the connections opened by connect(), by number
    pc,                 \* where the caller of the session is suspended
    cur,                \* the channel of the call the caller is suspended in
    ret,                \* the result of the last call that returned
    ncalls,             \* send_command calls that got an id in this run
    nframes,            \* inbound messages the readers have taken: frames
                        \* routed and messages dropped
    skipped,            \* 0, or the value of nframes after the first message
                        \* that a reader dropped without routing it
    auth,               \* the LgtvAuth object and its connection
    mac_address,        \* LgtvRemote.mac_address: Option<String>
    wake,               \* what on() has done: the packets it built and
                        \* sent, and its result
    scan,               \* the run of scan_for_tvs
    ctor,               \* a call of LgtvRemote::new: its arguments and result
    cursor              \* a call of LgtvCursor::execute: its list, position, frames sent, result

vars == <<mode, client_key, command_count, handshake_done, response_channels,
          ws_tx, lock, chan, conns, pc, cur, ret, ncalls, nframes, skipped,
          auth, mac_address, wake, scan, ctor, cursor>>

\* What neither the session nor the pairing client touches
apart == <<mac_address, wake, scan, ctor, cursor>>

remoteVars == <<client_key, command_count, handshake_done, response_channels,
                ws_tx, lock, chan, conns, pc, cur, ret, ncalls, nframes,
                skipped>>

----------------------------------------------------------------------------
(* Bounds of the model *)

MaxConn == 2        \* connect() calls that open a transport
MaxCalls == 2       \* send_command calls that get an id
MaxFrames == 2      \* inbound messages taken over all connections
OutCap == 2         \* stands for the capacity of the outbound queue (32)
SinkCap == 1        \* stands for the capacity of the unsolicited sink (32)

(* Program constants *)

U16 == 65536        \* half the width of command_count: u32
SlotCap == 1        \* mpsc::channel::<Value>(1) of send_command

Prefixes == {<<>>, << <<"a">> >>}
UnknownId == <<"z">>

----------------------------------------------------------------------------
(* Pure functions *)

DigitChar(d) == <<"0", "1", "2", "3", "4", "5", "6", "7", "8", "9">>[d + 1]

\* A u32 is kept as its two 16-bit halves, value = hi * 2^16 + lo
U32Of(hi, lo) == [hi |-> hi, lo |-> lo]
U32Max == U32Of(U16 - 1, U16 - 1)
Div10(n) == LET r == (n.hi % 10) * U16 + n.lo
            IN U32Of((n.hi \div 10) + ((r \div 10) \div U16), (r \div 10) % U16)
Mod10(n) == ((n.hi % 10) * U16 + n.lo) % 10

RECURSIVE Decimal(_)
\* u32::to_string, "{}" of a u32
Decimal(n) == IF n.hi = 0 /\ n.lo < 10 THEN <<DigitChar(n.lo)>>
              ELSE Decimal(Div10(n)) \o <<DigitChar(Mod10(n))>>

\* message_id of send_command (lines 177-180)
FormatId(prefix, n) ==
    IF prefix = <<>> THEN Decimal(n)
    ELSE prefix[1] \o <<"_">> \o Decimal(n)

\* command_count += 1 where it does not panic: the wrapping sum of a
\* release build
NextCount(n) ==
    IF n.lo + 1 < U16 THEN U32Of(n.hi, n.lo + 1)
    ELSE U32Of((n.hi + 1) % U16, 0)

Ok(op) == [op |-> op, res |-> "Ok", err |-> "", val |-> ""]
OkVal(op, v) == [op |-> op, res |-> "Ok", err |-> "", val |-> v]
Err(op, e) == [op |-> op, res |-> "Err", err |-> e, val |-> ""]
NoRet == [op |-> "", res |-> "", err |-> "", val |-> ""]

\* The payloads a frame can carry: none, one without client-key, one whose
\* client-key is not a string, one whose client-key is a key string
Payloads == {"none", "nokey", "nonstr", "K"}

IssuedIds == {chan[k].id : k \in DOMAIN chan}

\* The "type" member of a frame the device sends
FrameTypes == {"response", "error"}

\* The text frames the peer may send: any id it has seen, an id nobody
\* issued, or no id
Frames == [id : {<<>>, <<UnknownId>>} \cup {<<i>> : i \in IssuedIds},
           pl : Payloads, ty : FrameTypes]

\* sent and written are the history of a connection: the messages
\* send_message has enqueued for it and the messages ws_writer.send has
\* written to its transport, in order
NewConn == [stream |-> "open", rpc |-> "next", rheld |-> <<>>,
            wpc |-> "run", outq |-> <<>>, sent |-> <<>>, written |-> <<>>,
            sink |-> <<>>, sinkrx |-> TRUE, hs |-> FALSE]

HelloMsg(key) == [t |-> "register", id |-> <<>>, key |-> key]
RequestMsg(id) == [t |-> "request", id |-> id, key |-> ""]

NewChan(id, kind) == [id |-> id, kind |-> kind, buf |-> <<>>, rx |-> "local",
                      got |-> 0]

MapRemove(m, id) == [x \in DOMAIN m \ {id} |-> m[x]]
MapInsert(m, id, k) == [x \in DOMAIN m \cup {id} |-> IF x = id THEN k ELSE m[x]]

\* Some Sender of channel k is alive: the map holds it
SenderAlive(k) == \E id \in DOMAIN response_channels : response_channels[id] = k

----------------------------------------------------------------------------
(* Initial state *)

AuthInit == [client_key |-> <<>>, handshake_done |-> FALSE, pc |-> "idle",
             stream |-> "none", rpc |-> "none", rheld |-> <<>>, rx |-> <<>>,
             rxlive |-> FALSE, nconn |-> 0, ret |-> NoRet]

\* No call of on() made yet: `built` and `sent` are the packets on() has
\* built and the packets that have left, `parsed` what parse_mac_address
\* returned in the last call
NoWake == [n |-> 0, parsed |-> <<>>, built |-> <<>>, sent |-> <<>>,
           ret |-> NoRet]

\* The call of LgtvRemote::new is not followed
NoCtor == [args |-> <<>>, ret |-> <<>>]

\* No call of LgtvCursor::execute in this run
NoCursor == [websocket |-> FALSE, buttons |-> <<>>, i |-> 0, sent |-> <<>>, ret |-> <<>>]

\* scan_for_tvs is not run
NoScan == [pc |-> "none", i |-> 0, sends |-> 0, recvs |-> 0,
           addresses |-> <<>>, ret |-> [res |-> "", err |-> "", list |-> <<>>]]

Init ==
    /\ mode \in {"remote", "auth"}
    /\ client_key = "X"
    /\ command_count = U32Of(0, 0)
    /\ handshake_done = FALSE
    /\ response_channels = <<>>
    /\ ws_tx = 0
    /\ lock = 0
    /\ chan = <<>>
    /\ conns = <<>>
    /\ pc = "idle"
    /\ cur = 0
    /\ ret = NoRet
    /\ ncalls = 0
    /\ nframes = 0
    /\ skipped = 0
    /\ auth = AuthInit
    /\ mac_address = <<>>
    /\ wake = NoWake
    /\ ctor = NoCtor
    /\ cursor = NoCursor
    /\ scan = NoScan

----------------------------------------------------------------------------
(* LgtvRemote::connect *)

\* The LgtvError that `?` makes of a tungstenite error: a conversion into
\* ConnectionError
TransportErrorAsConnection == "ConnectionError: Failed to connect"

\* The LgtvError that `?` makes of a tungstenite error (error.rs 40-44)
TransportError == "WebSocketError"

\* ws_tx after a connect that could not open the transport, if connect
\* cleared the handle first
HandleAfterFailedOpenCleared(h) == 0

\* ws_tx after a connect that could not open the transport: the `?` of
\* line 77 returns before line 80 assigns ws_tx
HandleAfterFailedOpen(h) == h

\* connect_async fails: `?` returns the tungstenite error, converted by
\* From<tungstenite::Error> into LgtvError::WebSocketError
ConnectFail ==
    /\ mode = "remote" /\ pc = "idle"
    /\ Len(conns) < MaxConn
    /\ ret' = Err("connect", TransportError)
    /\ ws_tx' = HandleAfterFailedOpen(ws_tx)
    /\ UNCHANGED <<mode, apart, client_key, command_count, handshake_done,
                   response_channels, lock, chan, conns, pc, cur,
                   ncalls, nframes, skipped, auth>>

\* The new outbound queue of a connect that sends no registration envelope
HelloQueueEmpty(key) == <<>>

\* The new outbound queue after lines 130-133: connect holds &mut self from
\* line 79, where the queue is made, to the send_message of the envelope,
\* so the envelope is the first message in it
HelloQueue(key) == <<HelloMsg(key)>>

\* connect_async succeeds: a fresh outbound queue replaces ws_tx, a fresh
\* unsolicited sink is made, the writer and reader tasks are spawned and the
\* registration envelope is enqueued (the new queue is empty, so
\* send_message does not suspend); connect then waits on the sink
ConnectOpen ==
    /\ mode = "remote" /\ pc = "idle"
    /\ Len(conns) < MaxConn
    /\ conns' = Append(conns, [NewConn EXCEPT !.outq = HelloQueue(client_key),
                                              !.sent = HelloQueue(client_key)])
    /\ ws_tx' = Len(conns) + 1
    /\ pc' = "wait"
    /\ UNCHANGED <<mode, apart, client_key, command_count, handshake_done,
                   response_channels, lock, chan, cur, ret, ncalls,
                   nframes, skipped, auth>>

\* A wait that any frame with a payload ends
CompletesHandshakeAnyPayload(pl) == pl # "none"

\* Lines 137-138: the frame taken from the sink ends the wait when it has a
\* payload with a client-key, whatever the type of that key
CompletesHandshake(pl) == pl \in {"nonstr", "K"}

\* response_rx.recv() returns a frame
ConnectRecv ==
    /\ mode = "remote" /\ pc = "wait"
    /\ LET c == ws_tx
           f == Head(conns[c].sink)
       IN /\ conns[c].sink # <<>>
          /\ IF CompletesHandshake(f)
             THEN /\ handshake_done' = TRUE
                  /\ conns' = [conns EXCEPT ![c].sink = <<>>,
                                            ![c].sinkrx = FALSE,
                                            ![c].hs = TRUE]
                  /\ pc' = "idle"
                  /\ ret' = OkVal("connect", f)
             ELSE /\ conns' = [conns EXCEPT ![c].sink = Tail(@)]
                  /\ UNCHANGED <<handshake_done, pc, ret>>
    /\ UNCHANGED <<mode, apart, client_key, command_count, response_channels, ws_tx,
                   lock, chan, cur, ncalls, nframes, skipped, auth>>

\* The result of connect when response_rx.recv() returns None: the loop
\* ends and line 147 returns Ok(())
ConnectClosedResult == Ok("connect")

\* response_rx.recv() returns None: the reader task has ended and dropped
\* response_tx with the sink empty
ConnectClosed ==
    /\ mode = "remote" /\ pc = "wait"
    /\ conns[ws_tx].sink = <<>>
    /\ conns[ws_tx].rpc = "done"
    /\ conns' = [conns EXCEPT ![ws_tx].sinkrx = FALSE]
    /\ pc' = "idle"
    /\ ret' = ConnectClosedResult
    /\ UNCHANGED <<mode, apart, client_key, command_count, handshake_done,
                   response_channels, ws_tx, lock, chan, cur, ncalls,
                   nframes, skipped, auth>>

----------------------------------------------------------------------------
(* The reader task of a connection (remote.rs 99-128) *)

\* response_tx.send(json): a reader that ends when nothing listens on the
\* sink, as the reader of LgtvAuth does
ToSinkOrEnd(c, f, held) ==
    /\ IF ~conns[c].sinkrx
       THEN /\ conns' = [conns EXCEPT ![c].rpc = "done", ![c].rheld = <<>>]
            /\ lock' = IF held THEN 0 ELSE lock
       ELSE IF Len(conns[c].sink) < SinkCap
       THEN /\ conns' = [conns EXCEPT ![c].sink = Append(@, f.pl),
                                      ![c].rpc = "next", ![c].rheld = <<>>]
            /\ lock' = IF held THEN 0 ELSE lock
       ELSE /\ conns' = [conns EXCEPT ![c].rpc = "sink",
                                      ![c].rheld = <<[pl |-> f.pl]>>]
            /\ lock' = IF held THEN c ELSE lock
    /\ UNCHANGED <<chan, response_channels>>

\* response_tx.send(json): the frame goes to the unsolicited sink of
\* connection c. The receiver is dropped once connect has returned, and the
\* frame is then discarded. `held` says whether the map lock is held by the
\* sender (line 113) or not (line 116); the task suspends on a full sink.
\* connect reads nothing but the payload of a frame it takes from the sink,
\* so the sink keeps the payload only.
ToSink(c, f, held) ==
    /\ IF ~conns[c].sinkrx
       THEN /\ conns' = [conns EXCEPT ![c].rpc = "next", ![c].rheld = <<>>]
            /\ lock' = IF held THEN 0 ELSE lock
       ELSE IF Len(conns[c].sink) < SinkCap
       THEN /\ conns' = [conns EXCEPT ![c].sink = Append(@, f.pl),
                                      ![c].rpc = "next", ![c].rheld = <<>>]
            /\ lock' = IF held THEN 0 ELSE lock
       ELSE /\ conns' = [conns EXCEPT ![c].rpc = "sink",
                                      ![c].rheld = <<[pl |-> f.pl]>>]
            /\ lock' = IF held THEN c ELSE lock
    /\ UNCHANGED <<chan, response_channels>>

\* The channel a frame with id `id` is sent to: a wrong router, which hands
\* the frame to the oldest entry of the map whatever its id
SlotOfOldest(id) ==
    LET ks == {response_channels[x] : x \in DOMAIN response_channels}
    IN CHOOSE k \in ks : \A j \in ks : k <= j

\* The channel a frame with id `id` is sent to: channels.get(id)
SlotOf(id) == response_channels[id]

\* What the router does with the map entry after tx.send(..) returned Ok:
\* nothing, the entry stays (remove is called only when send failed)
AfterDelivery(m, id) == m

\* What the router does with the map entry after tx.send(..) returned Err:
\* a router that leaves the entry of a dropped receiver in the map
AfterFailedDeliveryKeep(m, id) == m

\* What the router does with the map entry after tx.send(..) returned Err:
\* channels.remove(id) (line 110)
AfterFailedDelivery(m, id) == MapRemove(m, id)

\* tx.send(json) to the slot of id, with the map lock held: fails when the
\* receiver is dropped (the entry is then removed), succeeds when the slot
\* has room, suspends while the slot is full
ToSlot(c, f, id) ==
    LET k == SlotOf(id)
    IN /\ IF chan[k].rx = "dropped"
          THEN /\ response_channels' = AfterFailedDelivery(response_channels, id)
               /\ chan' = chan
               /\ conns' = [conns EXCEPT ![c].rpc = "next", ![c].rheld = <<>>]
               /\ lock' = 0
          ELSE IF Len(chan[k].buf) < SlotCap
          THEN /\ chan' = [chan EXCEPT ![k].buf = Append(@, f)]
               /\ response_channels' = AfterDelivery(response_channels, id)
               /\ conns' = [conns EXCEPT ![c].rpc = "next", ![c].rheld = <<>>]
               /\ lock' = 0
          ELSE /\ conns' = [conns EXCEPT ![c].rpc = "slot", ![c].rheld = <<f>>]
               /\ lock' = c
               /\ UNCHANGED <<chan, response_channels>>

\* Lines 106-117: route a parsed frame by its id
Route(c, f) ==
    IF f.id # <<>>
    THEN IF f.id[1] \in DOMAIN response_channels
         THEN ToSlot(c, f, f.id[1])
         ELSE ToSink(c, f, TRUE)
    ELSE ToSink(c, f, FALSE)

\* ws_reader.next() yields a text frame that parses as JSON. A frame with a
\* string id needs the map lock, which may be held by a suspended reader.
ReaderFrame(c, f) ==
    /\ mode = "remote"
    /\ conns[c].rpc = "next" /\ conns[c].stream = "open"
    /\ f.id # <<>> => lock = 0
    /\ nframes < MaxFrames
    /\ nframes' = nframes + 1
    /\ Route(c, f)
    /\ UNCHANGED <<mode, apart, client_key, command_count, handshake_done, ws_tx, pc,
                   cur, ret, ncalls, skipped, auth>>

\* Where the reader goes after a message it does not route: a reader that
\* ends on it
AfterUnroutedBreak == "done"

\* Where the reader goes after a message it does not route (text that is
\* not JSON: line 103 has no else; another kind of message: line 125): back
\* to ws_reader.next()
AfterUnrouted == "next"

\* ws_reader.next() yields text that is not JSON, or a binary, ping or pong
\* message: the reader drops it
ReaderSkip(c) ==
    /\ mode = "remote"
    /\ conns[c].rpc = "next" /\ conns[c].stream = "open"
    /\ nframes < MaxFrames
    /\ nframes' = nframes + 1
    /\ skipped' = IF skipped = 0 THEN nframes + 1 ELSE skipped
    /\ conns' = [conns EXCEPT ![c].rpc = AfterUnrouted]
    /\ UNCHANGED <<mode, apart, client_key, command_count, handshake_done,
                   response_channels, ws_tx, lock, chan, pc, cur, ret, ncalls,
                   auth>>

\* The suspended send of the reader goes on: the slot or the sink got room,
\* or its receiver was dropped
ReaderResume(c) ==
    /\ mode = "remote"
    /\ conns[c].rpc \in {"slot", "sink"}
    /\ LET f == conns[c].rheld[1]
       IN IF conns[c].rpc = "slot"
          THEN /\ (chan[SlotOf(f.id[1])].rx = "dropped"
                   \/ Len(chan[SlotOf(f.id[1])].buf) < SlotCap)
               /\ ToSlot(c, f, f.id[1])
          ELSE /\ (~conns[c].sinkrx \/ Len(conns[c].sink) < SinkCap)
               /\ ToSink(c, f, lock = c)
    /\ UNCHANGED <<mode, apart, client_key, command_count, handshake_done, ws_tx, pc,
                   cur, ret, ncalls, nframes, skipped, auth>>

\* The peer closes the stream or the transport fails
StreamClose(c) ==
    /\ mode = "remote"
    /\ conns[c].stream = "open"
    /\ conns' = [conns EXCEPT ![c].stream = "closed"]
    /\ UNCHANGED <<mode, apart, client_key, command_count, handshake_done,
                   response_channels, ws_tx, lock, chan, pc, cur, ret, ncalls, nframes, skipped, auth>>

\* ws_reader.next() yields a close frame, an error or the end of the stream:
\* the reader task ends and drops response_tx
ReaderEnd(c) ==
    /\ mode = "remote"
    /\ conns[c].rpc = "next" /\ conns[c].stream = "closed"
    /\ conns' = [conns EXCEPT ![c].rpc = "done"]
    /\ UNCHANGED <<mode, apart, client_key, command_count, handshake_done,
                   response_channels, ws_tx, lock, chan, pc, cur, ret, ncalls, nframes, skipped, auth>>

----------------------------------------------------------------------------
(* The writer task of a connection (remote.rs 90-96) *)

\* rx.recv() of the writer: a wrong queue, which yields the newest message
QueuePopNewest(q) == [msg |-> q[Len(q)], rest |-> SubSeq(q, 1, Len(q) - 1)]

\* rx.recv() of the writer on a queue that holds messages: the oldest one
QueuePop(q) == [msg |-> Head(q), rest |-> Tail(q)]

\* rx.recv() yields a message and ws_writer.send writes it; on a closed
\* stream the send fails, the loop breaks and the queue is dropped
WriterSend(c) ==
    /\ mode = "remote"
    /\ conns[c].wpc = "run" /\ conns[c].outq # <<>>
    /\ IF conns[c].stream = "open"
       THEN conns' = [conns EXCEPT ![c].outq = QueuePop(conns[c].outq).rest,
                                   ![c].written =
                                       Append(@, QueuePop(conns[c].outq).msg)]
       ELSE conns' = [conns EXCEPT ![c].wpc = "done", ![c].outq = <<>>]
    /\ UNCHANGED <<mode, apart, client_key, command_count, handshake_done,
                   response_channels, ws_tx, lock, chan, pc, cur, ret, ncalls, nframes, skipped, auth>>

\* rx.recv() yields None: the queue is empty and its only Sender, the one in
\* ws_tx, was replaced by a later connect
WriterEnd(c) ==
    /\ mode = "remote"
    /\ conns[c].wpc = "run" /\ conns[c].outq = <<>>
    /\ ws_tx # c
    /\ conns' = [conns EXCEPT ![c].wpc = "done"]
    /\ UNCHANGED <<mode, apart, client_key, command_count, handshake_done,
                   response_channels, ws_tx, lock, chan, pc, cur, ret, ncalls, nframes, skipped, auth>>

----------------------------------------------------------------------------
(* LgtvRemote::send_message, send_command, send_request *)

\* What tx.send(Message::Text(..)) of send_message meets: a queue without
\* a capacity, which is never full
SendOutcomeUnbounded ==
    IF ws_tx = 0 THEN "unconnected"
    ELSE IF conns[ws_tx].wpc = "done" THEN "closed"
    ELSE "ok"

\* What tx.send(Message::Text(..)) of send_message meets
SendOutcome ==
    IF ws_tx = 0 THEN "unconnected"
    ELSE IF conns[ws_tx].wpc = "done" THEN "closed"
    ELSE IF Len(conns[ws_tx].outq) >= OutCap THEN "full"
    ELSE "ok"

SendError(out) ==
    IF out = "unconnected" THEN "ConnectionError: WebSocket not connected"
    ELSE "ConnectionError: Failed to send message"

\* Lines 199-201 (and 211-212 for send_request) for the call of channel k,
\* whose Sender is in the map: enqueue the request and return the receiver,
\* suspend on a full queue, or return the error of send_message (the
\* receiver is then dropped with the call's frame)
Enqueue(ch, k) ==
    LET out == SendOutcome
    IN IF out = "ok"
       THEN /\ conns' = [conns EXCEPT ![ws_tx].outq = Append(@, RequestMsg(ch[k].id)),
                                      ![ws_tx].sent = Append(@, RequestMsg(ch[k].id))]
            /\ IF ch[k].kind = "request"
               THEN /\ chan' = [ch EXCEPT ![k].rx = "awaited"]
                    /\ pc' = "recv" /\ cur' = k /\ ret' = ret
               ELSE /\ chan' = [ch EXCEPT ![k].rx = "held"]
                    /\ pc' = "idle" /\ cur' = 0 /\ ret' = Ok("send_command")
       ELSE IF out = "full"
       THEN /\ chan' = ch /\ pc' = "enq" /\ cur' = k
            /\ UNCHANGED <<conns, ret>>
       ELSE /\ chan' = [ch EXCEPT ![k].rx = "dropped"]
            /\ pc' = "idle" /\ cur' = 0
            /\ ret' = Err(IF ch[k].kind = "request" THEN "send_request"
                          ELSE "send_command", SendError(out))
            /\ UNCHANGED conns

\* The handshake test of send_command: a variant that accepts a session
\* that has an outbound handle
AcceptsIfConnected == ws_tx # 0

\* The handshake test of send_command (lines 170-175)
Accepts == handshake_done

\* command_count after a rejected call if the id were built and the counter
\* stepped before the handshake test
RejectedCountStepped(n) == NextCount(n)

\* command_count after a rejected call: the return of lines 171-174 comes
\* before line 181
RejectedCount(n) == n

\* What `command_count += 1` can do: add one; at u32::MAX wrap to 0 (release
\* build) or panic (debug build)
CountOutcomes == IF command_count = U32Max THEN {"wrap", "panic"} ELSE {"inc"}

\* send_command(msg_type, uri, payload, prefix), called directly (kind
\* "command": the receiver is returned) or by send_request (kind "request":
\* the receiver is awaited). Rejected before the handshake; otherwise the id
\* is built, the counter stepped, the channel made and, once the map lock is
\* free, its Sender inserted under the id, overwriting an entry of that id.
SendCommand(prefix, kind) ==
    /\ mode = "remote" /\ pc = "idle"
    /\ ncalls < MaxCalls
    /\ UNCHANGED <<mode, apart, client_key, handshake_done, ws_tx, nframes, skipped, auth, lock>>
    /\ IF ~Accepts
       THEN /\ ret' = Err(IF kind = "request" THEN "send_request"
                          ELSE "send_command",
                          "CommandError: Handshake not completed")
            /\ command_count' = RejectedCount(command_count)
            /\ UNCHANGED <<response_channels, chan, conns, pc, cur, ncalls>>
       ELSE \E o \in CountOutcomes :
            IF o = "panic"
            THEN /\ pc' = "panicked"
                 /\ ret' = Err("send_command", "panic: add with overflow")
                 /\ UNCHANGED <<command_count, response_channels, chan, conns,
                                cur, ncalls>>
            ELSE LET id == FormatId(prefix, command_count)
                     k == Len(chan) + 1
                     ch == Append(chan, NewChan(id, kind))
                 IN /\ command_count' = NextCount(command_count)
                    /\ ncalls' = ncalls + 1
                    /\ IF lock # 0
                       THEN /\ chan' = ch /\ pc' = "lock" /\ cur' = k
                            /\ UNCHANGED <<response_channels, conns, ret>>
                       ELSE /\ response_channels' =
                                   MapInsert(response_channels, id, k)
                            /\ Enqueue(ch, k)

\* The map lock was released: the suspended call inserts and goes on
SendLocked ==
    /\ mode = "remote" /\ pc = "lock"
    /\ lock = 0
    /\ response_channels' = MapInsert(response_channels, chan[cur].id, cur)
    /\ Enqueue(chan, cur)
    /\ UNCHANGED <<mode, apart, client_key, command_count, handshake_done, ws_tx,
                   lock, ncalls, nframes, skipped, auth>>

\* The outbound queue got room or its receiver was dropped: the suspended
\* tx.send goes on
SendQueued ==
    /\ mode = "remote" /\ pc = "enq"
    /\ SendOutcome # "full"
    /\ Enqueue(chan, cur)
    /\ UNCHANGED <<mode, apart, client_key, command_count, handshake_done,
                   response_channels, ws_tx, lock, ncalls, nframes, skipped, auth>>

\* What send_request returns for the frame it received (line 215):
\* json!({}), the empty object
EmptyObject == "{}"

\* response.get("payload") without the default: null for a frame that has
\* no payload
UnwrapOrNull(f) == f.pl

\* response.get("payload").cloned().unwrap_or(json!({})) (line 215)
Unwrap(f) == IF f.pl = "none" THEN EmptyObject ELSE f.pl

\* What send_request returns for the frame it received: a variant that
\* turns a frame of type "error" into an Err
RequestResultErrOnError(f) ==
    IF f.ty = "error"
    THEN Err("send_request", "CommandError: device reported an error")
    ELSE OkVal("send_request", Unwrap(f))

\* What send_request returns for the frame it received (lines 213-215): Ok
\* with the payload, whatever the other members of the frame
RequestResult(f) == OkVal("send_request", Unwrap(f))

\* rx.recv() of send_request returns: a frame (the receiver is then
\* dropped), or None when the slot is empty and every Sender is gone
RequestRecv ==
    /\ mode = "remote" /\ pc = "recv"
    /\ IF chan[cur].buf # <<>>
       THEN /\ chan' = [chan EXCEPT ![cur].buf = <<>>,
                                    ![cur].got = @ + 1,
                                    ![cur].rx = "dropped"]
            /\ ret' = RequestResult(Head(chan[cur].buf))
       ELSE /\ ~SenderAlive(cur)
            /\ chan' = [chan EXCEPT ![cur].rx = "dropped"]
            /\ ret' = Err("send_request", "CommandError: No response received")
    /\ pc' = "idle" /\ cur' = 0
    /\ UNCHANGED <<mode, apart, client_key, command_count, handshake_done,
                   response_channels, ws_tx, lock, conns, ncalls, nframes, skipped, auth>>

\* The caller drops the future of a suspended send_command or send_request:
\* the receiver (and, before the insert, the Sender) goes with it
Abandon ==
    /\ mode = "remote" /\ pc \in {"lock", "enq", "recv"}
    /\ chan' = [chan EXCEPT ![cur].rx = "dropped", ![cur].buf = <<>>]
    /\ pc' = "idle" /\ cur' = 0
    /\ ret' = NoRet
    /\ UNCHANGED <<mode, apart, client_key, command_count, handshake_done,
                   response_channels, ws_tx, lock, conns, ncalls, nframes, skipped, auth>>

\* The owner of a receiver returned by send_command calls recv() on it
HolderRecv(k) ==
    /\ mode = "remote"
    /\ chan[k].rx = "held" /\ chan[k].buf # <<>>
    /\ chan' = [chan EXCEPT ![k].buf = Tail(@),
                            ![k].got = @ + 1]
    /\ UNCHANGED <<mode, apart, client_key, command_count, handshake_done,
                   response_channels, ws_tx, lock, conns, pc, cur, ret,
                   ncalls, nframes, skipped, auth>>

\* The owner of a receiver returned by send_command drops it
HolderDrop(k) ==
    /\ mode = "remote"
    /\ chan[k].rx = "held"
    /\ chan' = [chan EXCEPT ![k].rx = "dropped", ![k].buf = <<>>]
    /\ UNCHANGED <<mode, apart, client_key, command_count, handshake_done,
                   response_channels, ws_tx, lock, conns, pc, cur, ret,
                   ncalls, nframes, skipped, auth>>

RemoteNext ==
    \/ ConnectFail
    \/ ConnectOpen
    \/ ConnectRecv
    \/ ConnectClosed
    \/ \E c \in DOMAIN conns : \E f \in Frames : ReaderFrame(c, f)
    \/ \E c \in DOMAIN conns : ReaderSkip(c)
    \/ \E c \in DOMAIN conns : ReaderResume(c)
    \/ \E c \in DOMAIN conns : StreamClose(c)
    \/ \E c \in DOMAIN conns : ReaderEnd(c)
    \/ \E c \in DOMAIN conns : WriterSend(c)
    \/ \E c \in DOMAIN conns : WriterEnd(c)
    \/ \E p \in Prefixes : \E kind \in {"request", "command"} : SendCommand(p, kind)
    \/ SendLocked
    \/ SendQueued
    \/ RequestRecv
    \/ Abandon
    \/ \E k \in DOMAIN chan : HolderRecv(k)
    \/ \E k \in DOMAIN chan : HolderDrop(k)

----------------------------------------------------------------------------
(* LgtvAuth (auth.rs) *)

AuthOthers == <<mode, apart, remoteVars>>

\* The frames a peer may send to a pairing client; a reply may carry the
\* key "K" or another key "L"
AuthFrames == [id : {<<>>}, pl : Payloads \cup {"L"}]

\* connect_async, or the send of the hello envelope in handle_connection,
\* fails: `?` returns the tungstenite error as LgtvError::WebSocketError
AuthConnectFail ==
    /\ mode = "auth" /\ auth.pc = "idle"
    /\ auth.nconn < MaxConn
    /\ auth' = [auth EXCEPT !.ret = Err("connect", TransportError)]
    /\ UNCHANGED AuthOthers

\* The stream is open and the hello envelope is written; the reader task is
\* spawned with the Sender of a fresh channel and connect waits on it
AuthConnectOpen ==
    /\ mode = "auth" /\ auth.pc = "idle"
    /\ auth.nconn < MaxConn
    /\ auth' = [auth EXCEPT !.pc = "wait", !.stream = "open", !.rpc = "next",
                            !.rheld = <<>>, !.rx = <<>>, !.rxlive = TRUE,
                            !.nconn = @ + 1]
    /\ UNCHANGED AuthOthers

\* tx.send(json) of the reader task (line 111): the task ends when the
\* receiver is dropped and suspends on a full channel
AuthToChannel(f) ==
    IF ~auth.rxlive
    THEN auth' = [auth EXCEPT !.rpc = "done", !.rheld = <<>>]
    ELSE IF Len(auth.rx) < SinkCap
    THEN auth' = [auth EXCEPT !.rx = Append(@, f), !.rpc = "next",
                              !.rheld = <<>>]
    ELSE auth' = [auth EXCEPT !.rpc = "send", !.rheld = <<f>>]

\* ws_stream.next() yields a text frame that parses as JSON
AuthReaderFrame(f) ==
    /\ mode = "auth"
    /\ auth.rpc = "next" /\ auth.stream = "open"
    /\ AuthToChannel(f)
    /\ UNCHANGED AuthOthers

\* ws_stream.next() yields text that is not JSON or a non-text message
AuthReaderSkip ==
    /\ mode = "auth"
    /\ auth.rpc = "next" /\ auth.stream = "open"
    /\ UNCHANGED <<AuthOthers, auth>>

\* The suspended tx.send goes on
AuthReaderResume ==
    /\ mode = "auth"
    /\ auth.rpc = "send"
    /\ (~auth.rxlive \/ Len(auth.rx) < SinkCap)
    /\ AuthToChannel(auth.rheld[1])
    /\ UNCHANGED AuthOthers

\* The peer closes the stream or the transport fails
AuthStreamClose ==
    /\ mode = "auth"
    /\ auth.stream = "open"
    /\ auth' = [auth EXCEPT !.stream = "closed"]
    /\ UNCHANGED AuthOthers

\* ws_stream.next() yields a close frame, an error or the end of the stream
AuthReaderEnd ==
    /\ mode = "auth"
    /\ auth.rpc = "next" /\ auth.stream = "closed"
    /\ auth' = [auth EXCEPT !.rpc = "done"]
    /\ UNCHANGED AuthOthers

\* Lines 76-78: the frame stores a key when payload.client-key is a string
AuthTakesKey(f) == f.pl \in {"K", "L"}

\* Lines 87-91: what connect returns once its loop has ended
AuthResult(key) ==
    IF key = <<>> THEN Err("connect", "AuthError: Pairing failed")
    ELSE Ok("connect")

\* Line 79: the key connect stores, self.client_key = Some(key)
AuthStore(f) == <<f.pl>>

\* rx.recv() of connect returns a frame (lines 75-85)
AuthRecv ==
    /\ mode = "auth" /\ auth.pc = "wait"
    /\ auth.rx # <<>>
    /\ LET f == Head(auth.rx)
       IN IF AuthTakesKey(f)
          THEN auth' = [auth EXCEPT !.client_key = AuthStore(f),
                                    !.handshake_done = TRUE,
                                    !.rx = <<>>, !.rxlive = FALSE,
                                    !.pc = "idle",
                                    !.ret = OkVal("connect", f.pl)]
          ELSE auth' = [auth EXCEPT !.rx = Tail(@)]
    /\ UNCHANGED AuthOthers

\* rx.recv() of connect returns None: the reader task has ended
AuthClosed ==
    /\ mode = "auth" /\ auth.pc = "wait"
    /\ auth.rx = <<>> /\ auth.rpc = "done"
    /\ auth' = [auth EXCEPT !.rxlive = FALSE, !.pc = "idle",
                            !.ret = AuthResult(auth.client_key)]
    /\ UNCHANGED AuthOthers

AuthNext ==
    \/ AuthConnectFail
    \/ AuthConnectOpen
    \/ \E f \in AuthFrames : AuthReaderFrame(f)
    \/ AuthReaderSkip
    \/ AuthReaderResume
    \/ AuthStreamClose
    \/ AuthReaderEnd
    \/ AuthRecv
    \/ AuthClosed

Next == RemoteNext \/ AuthNext


Spec == Init /\ [][Next]_vars

----------------------------------------------------------------------------
(* An established session: connect has returned Ok on its one connection   *)
(* and no further connect is made; the writer has written the registration *)
(* envelope or still has it in its queue. It is either fresh (command_count 0, no *)
(* call made yet) or late in its life: it has accepted 2^32 - 1 calls, so  *)
(* that command_count holds u32::MAX. Of the calls a late session has made *)
(* the state keeps the first one (no prefix, id "0", answered once, so     *)
(* that its entry is still in the map); the others are forgotten, which    *)
(* changes nothing the later calls can observe: a frame for a forgotten id *)
(* is discarded either way.                                                *)

FirstCall == [NewChan(FormatId(<<>>, U32Of(0, 0)), "request")
                 EXCEPT !.rx = "dropped", !.got = 1]

SessionInit ==
    /\ mode = "remote"
    /\ client_key = "X"
    /\ command_count \in {U32Of(0, 0), U32Max}
    /\ handshake_done = TRUE
    /\ chan = IF command_count = U32Max THEN <<FirstCall>> ELSE <<>>
    /\ response_channels = IF command_count = U32Max
                           THEN MapInsert(<<>>, FirstCall.id, 1) ELSE <<>>
    /\ ws_tx = 1
    /\ lock = 0
    /\ \E q \in {<<>>, <<HelloMsg(client_key)>>} :
          conns = << [NewConn EXCEPT !.sinkrx = FALSE, !.hs = TRUE,
                                     !.sent = <<HelloMsg(client_key)>>,
                                     !.written = IF q = <<>>
                                                 THEN <<HelloMsg(client_key)>>
                                                 ELSE <<>>,
                                     !.outq = q] >>
    /\ pc = "idle"
    /\ cur = 0
    /\ ret = NoRet
    /\ ncalls = 0
    /\ nframes = 0
    /\ skipped = 0
    /\ auth = AuthInit
    /\ mac_address = <<>>
    /\ wake = NoWake
    /\ ctor = NoCtor
    /\ cursor = NoCursor
    /\ scan = NoScan

\* The steps of that session: all of RemoteNext but connect
SessionNext ==
    \/ \E c \in DOMAIN conns : \E f \in Frames : ReaderFrame(c, f)
    \/ \E c \in DOMAIN conns : ReaderSkip(c)
    \/ \E c \in DOMAIN conns : ReaderResume(c)
    \/ \E c \in DOMAIN conns : StreamClose(c)
    \/ \E c \in DOMAIN conns : ReaderEnd(c)
    \/ \E c \in DOMAIN conns : WriterSend(c)
    \/ \E p \in Prefixes : \E kind \in {"request", "command"} : SendCommand(p, kind)
    \/ SendLocked
    \/ SendQueued
    \/ RequestRecv
    \/ Abandon
    \/ \E k \in DOMAIN chan : HolderRecv(k)
    \/ \E k \in DOMAIN chan : HolderDrop(k)

SpecSession == SessionInit /\ [][SessionNext]_vars

----------------------------------------------------------------------------
(* Properties *)

AnySendCommand == \E p \in Prefixes : \E kind \in {"request", "command"} :
                      SendCommand(p, kind)

\* The session is Ready: the connection ws_tx feeds completed its own
\* handshake and its reader has not seen the stream close or fail
Ready == /\ ws_tx # 0
         /\ conns[ws_tx].hs
         /\ conns[ws_tx].rpc # "done"

\* C1: every frame handed to the receiver of a call carries the id that was
\* assigned to that call; a frame with another id never reaches its slot
C1_CorrelatedDelivery ==
    \A k \in DOMAIN chan : \A i \in DOMAIN chan[k].buf :
        chan[k].buf[i].id = <<chan[k].id>>

\* Two calls in flight, the reply to the second arrived first and the first
\* call is still pending
C1_Witness ==
    /\ Len(chan) = 2
    /\ chan[1].id # chan[2].id
    /\ chan[2].buf # <<>>
    /\ chan[1].buf = <<>> /\ chan[1].got = 0 /\ chan[1].rx = "held"

\* C2: any two send_command calls that got an id got different ids
C2_IdsDistinct ==
    \A i, j \in DOMAIN chan : i # j => chan[i].id # chan[j].id

\* C3: a send_command issued while the handshake flag is false returns
\* CommandError("Handshake not completed") at once and changes nothing, and
\* no call is ever suspended while the flag is false
C3_RejectedBeforeHandshake ==
    /\ [][(AnySendCommand /\ ~handshake_done) =>
            /\ ret'.res = "Err"
            /\ ret'.err = "CommandError: Handshake not completed"
            /\ pc' = "idle"
            /\ UNCHANGED <<command_count, response_channels, chan, conns>>]_vars
    /\ [](pc \in {"lock", "enq", "recv"} => handshake_done)

\* A call was rejected on a session that has an outbound handle but no
\* completed handshake
C3_Witness ==
    /\ ret.err = "CommandError: Handshake not completed"
    /\ ~handshake_done
    /\ ws_tx # 0

\* C4: at most one frame is ever delivered to the receiver of a call
C4_ExactlyOneDelivery ==
    \A k \in DOMAIN chan : chan[k].got + Len(chan[k].buf) <= 1

\* C5: when the router has finished handling a frame whose id was a key of
\* the map, that id is no longer a key of the map
C5_EntryRemovedAfterRouting ==
    [][\A c \in DOMAIN conns : \A f \in Frames :
          (/\ ReaderFrame(c, f)
           /\ f.id # <<>>
           /\ f.id[1] \in DOMAIN response_channels
           /\ conns'[c].rpc = "next")
          => f.id[1] \notin DOMAIN response_channels']_vars

\* C6: a correlation entry is registered, and a request enqueued, only
\* while the current connection is Ready
C6_AcceptedOnlyWhenReady ==
    [][((\E id \in DOMAIN response_channels' :
            \/ id \notin DOMAIN response_channels
            \/ response_channels'[id] # response_channels[id])
        \/ (\E c \in DOMAIN conns :
               Len(conns'[c].outq) > Len(conns[c].outq)))
       => Ready]_vars

\* C7: a send_command made after the reader of the current connection has
\* seen the stream close returns ConnectionError at once
C7_FailFastAfterClose ==
    [][(AnySendCommand /\ ws_tx # 0 /\ conns[ws_tx].rpc = "done") =>
            /\ pc' = "idle"
            /\ ret'.res = "Err"
            /\ ret'.err \in {"ConnectionError: Failed to send message",
                             "ConnectionError: WebSocket not connected"}]_vars

\* C8: a send_request that is awaiting its response when every reader task
\* has ended can return (with its frame, or with "No response received").
\* Where it cannot, it never will: only a reader removes a map entry or
\* fills a slot, and the suspended caller holds the session (&mut self), so
\* no connect can start another reader.
C8_NoHangAfterClose ==
    (/\ mode = "remote" /\ pc = "recv"
     /\ \A c \in DOMAIN conns : conns[c].rpc = "done")
    => ENABLED RequestRecv

\* C9: connect returns Ok only when the handshake is completed
C9_ConnectOkOnlyAfterHandshake ==
    /\ (mode = "remote" /\ ret.op = "connect" /\ ret.res = "Ok")
          => handshake_done
    /\ (mode = "auth" /\ auth.ret.op = "connect" /\ auth.ret.res = "Ok")
          => auth.handshake_done

\* C10: after connect has taken a reply whose client-key is a
\* string, the key stored in the session is that string
C10_StoredKeyIsReplyKey ==
    /\ (mode = "remote" /\ ret.op = "connect" /\ ret.val = "K")
          => (handshake_done /\ client_key = ret.val)
    /\ (mode = "auth" /\ auth.ret.op = "connect" /\ auth.ret.val \in {"K", "L"})
          => (auth.handshake_done /\ auth.client_key = <<auth.ret.val>>)

\* What the code does in the case of C10: after connect has taken a reply
\* whose client-key is a string, the handshake flag is set; LgtvAuth stores
\* that string as its key, LgtvRemote keeps the key it was constructed with
HandshakeRoundTrip ==
    /\ (mode = "remote" /\ ret.op = "connect" /\ ret.val = "K")
          => (handshake_done /\ client_key = "X")
    /\ (mode = "auth" /\ auth.ret.op = "connect" /\ auth.ret.val \in {"K", "L"})
          => (/\ auth.handshake_done
              /\ auth.client_key = <<auth.ret.val>>)

\* q is a prefix of r
IsPrefix(q, r) == Len(q) <= Len(r) /\ SubSeq(r, 1, Len(q)) = q

\* C11: on every connection the messages written to the transport are, in
\* order, the first of the messages enqueued for it; while the writer runs
\* the others are exactly the messages waiting in the queue, in order
C11_OutboundOrder ==
    \A c \in DOMAIN conns :
        /\ IsPrefix(conns[c].written, conns[c].sent)
        /\ conns[c].wpc = "run" =>
               conns[c].sent = conns[c].written \o conns[c].outq

\* The writer has written a message and two more wait in the queue together
C11_Witness ==
    \E c \in DOMAIN conns :
        /\ conns[c].written # <<>>
        /\ Len(conns[c].outq) = 2
        /\ conns[c].outq[1] # conns[c].outq[2]

\* C12: a frame whose id is in the map, for a call whose receiver was
\* dropped, is handed to no receiver and its entry is removed from the map,
\* at once or when a suspended delivery goes on; dropping a receiver or the
\* future of a call enqueues nothing
C12_AbandonedEntryPruned ==
    /\ [][nframes' # nframes => \A c \in DOMAIN conns : \A f \in Frames :
            (/\ f.id # <<>>
             /\ f.id[1] \in DOMAIN response_channels
             /\ chan[response_channels[f.id[1]]].rx = "dropped"
             /\ ReaderFrame(c, f))
            => (/\ f.id[1] \notin DOMAIN response_channels'
                /\ chan' = chan
                /\ conns'[c].rpc = "next")]_vars
    /\ [][\A c \in DOMAIN conns :
            (/\ conns[c].rpc = "slot"
             /\ conns[c].rheld[1].id[1] \in DOMAIN response_channels
             /\ chan[response_channels[conns[c].rheld[1].id[1]]].rx = "dropped"
             /\ ReaderResume(c))
            => (/\ conns[c].rheld[1].id[1] \notin DOMAIN response_channels'
                /\ chan' = chan
                /\ conns'[c].rpc = "next")]_vars
    /\ [][(Abandon \/ \E k \in DOMAIN chan : HolderDrop(k))
            => \A c \in DOMAIN conns : /\ conns'[c].outq = conns[c].outq
                                       /\ conns'[c].sent = conns[c].sent]_vars

\* The one call of the session returned its receiver, the receiver was
\* dropped and the map is empty again: a later frame pruned the entry
C12_Witness ==
    /\ Len(chan) = 1
    /\ ret = Ok("send_command")
    /\ chan[1].rx = "dropped"
    /\ response_channels = <<>>

\* C13: no state has a router suspended in a delivery (to a slot or to the
\* unsolicited sink) with the map lock held while a send_command call waits
\* for that lock
C13_RouterNeverWaitsWithLock ==
    ~ \E c \in DOMAIN conns :
          /\ conns[c].rpc \in {"slot", "sink"}
          /\ lock = c
          /\ pc = "lock"

\* C14: a reader that drops a malformed frame goes back to reading and
\* changes neither the map, the handshake flag nor any pending request; a
\* reader ends only when its stream has closed
C14_MalformedFrameDropped ==
    /\ [][\A c \in DOMAIN conns :
            ReaderSkip(c) =>
                /\ conns'[c].rpc = "next"
                /\ UNCHANGED <<response_channels, handshake_done, chan, lock,
                               pc, ret>>]_vars
    /\ [](\A c \in DOMAIN conns :
            conns[c].rpc = "done" => conns[c].stream = "closed")

\* The first connection dropped a malformed frame before it took any other
\* message, then routed the reply that completed the handshake, and reads on
C14_Witness ==
    /\ Len(conns) = 1
    /\ skipped = 1
    /\ handshake_done
    /\ conns[1].rpc = "next" /\ conns[1].stream = "open"

\* C15: a frame without a string id, or with an id that is no key of the
\* map, reaches no slot and leaves the map alone. While connect listens it
\* is appended to the sink of its connection (the reader suspends while the
\* sink is full); once connect has returned it is discarded; either way the
\* reader then goes back to reading
C15_UnsolicitedToSink ==
    /\ [][nframes' # nframes => \A c \in DOMAIN conns : \A f \in Frames :
            (/\ (f.id = <<>> \/ f.id[1] \notin DOMAIN response_channels)
             /\ ReaderFrame(c, f))
            => /\ chan' = chan
               /\ response_channels' = response_channels
               /\ IF ~conns[c].sinkrx
                  THEN /\ conns'[c].sink = conns[c].sink
                       /\ conns'[c].rpc = "next"
                  ELSE IF Len(conns[c].sink) < SinkCap
                  THEN /\ conns'[c].sink = Append(conns[c].sink, f.pl)
                       /\ conns'[c].rpc = "next"
                  ELSE /\ conns'[c].sink = conns[c].sink
                       /\ conns'[c].rpc = "sink"]_vars
    /\ [][\A c \in DOMAIN conns :
            (conns[c].rpc = "sink" /\ ReaderResume(c))
            => /\ chan' = chan
               /\ response_channels' = response_channels
               /\ conns'[c].rpc = "next"
               /\ conns'[c].sink = IF conns[c].sinkrx
                                   THEN Append(conns[c].sink,
                                               conns[c].rheld[1].pl)
                                   ELSE conns[c].sink]_vars

\* connect took from the sink of a connection the frame that completed the
\* handshake and returned, while the reader of that connection is suspended
\* with a later frame for the sink, on which nothing listens any more
C15_Witness ==
    \E c \in DOMAIN conns :
        /\ conns[c].hs
        /\ conns[c].rpc = "sink"
        /\ ~conns[c].sinkrx

\* C16: once the stream of a connection has closed, its reader and writer
\* tasks go on to their end by themselves: while one of them has not ended,
\* one of them can take a step. Where neither can, only a call of the
\* session's owner (a send_command, a connect) lets the writer go on.
C16_TasksEndOnClose ==
    \A c \in DOMAIN conns :
        (/\ conns[c].stream = "closed"
         /\ ~(conns[c].rpc = "done" /\ conns[c].wpc = "done"))
        => ENABLED (\/ ReaderEnd(c) \/ ReaderResume(c)
                    \/ WriterSend(c) \/ WriterEnd(c))

\* The reader of connection c can get on with its work by steps of the
\* reader tasks alone: it is reading and the map lock is free or its holder
\* can go on, or it is suspended in a delivery that can go on
ReaderCanGoOn(c) ==
    \/ /\ conns[c].rpc = "next"
       /\ \/ lock = 0
          \/ ENABLED (\E h \in DOMAIN conns : h = lock /\ ReaderResume(h))
    \/ ENABLED ReaderResume(c)

\* C17: while a send_request waits for its response on a Ready session
\* whose stream is open, the reader of that session can get on to the frame
\* that answers it. Where it cannot, no step of the reader and writer tasks
\* changes that: the call returns only if the owner of another receiver
\* reads or drops it.
C17_ReplyReachesCaller ==
    (/\ mode = "remote" /\ pc = "recv"
     /\ chan[cur].buf = <<>>
     /\ Ready /\ conns[ws_tx].stream = "open")
    => ReaderCanGoOn(ws_tx)

\* C18: a frame of type "error" whose id is a key of the map is put into
\* the slot of that id like any other frame, and a send_request that
\* receives a frame returns Ok with the payload of that frame, whatever its
\* type
C18_ErrorFrameIsPayload ==
    /\ [][nframes' # nframes => \A c \in DOMAIN conns : \A f \in Frames :
            (/\ f.ty = "error"
             /\ f.id # <<>>
             /\ f.id[1] \in DOMAIN response_channels
             /\ chan[response_channels[f.id[1]]].rx # "dropped"
             /\ Len(chan[response_channels[f.id[1]]].buf) < SlotCap
             /\ ReaderFrame(c, f))
            => chan'[response_channels[f.id[1]]].buf =
                   Append(chan[response_channels[f.id[1]]].buf, f)]_vars
    /\ [][(RequestRecv /\ chan[cur].buf # <<>>)
            => ret' = OkVal("send_request", Unwrap(Head(chan[cur].buf)))]_vars

\* A send_request waits and a frame of type "error" with a payload is in
\* its slot
C18_Witness ==
    /\ pc = "recv"
    /\ chan[cur].buf # <<>>
    /\ chan[cur].buf[1].ty = "error"
    /\ chan[cur].buf[1].pl = "nokey"

\* The ConnectionError values
ConnectionErrors == {"ConnectionError: Failed to send message",
                     "ConnectionError: WebSocket not connected",
                     "ConnectionError: Failed to connect"}

C20_QueueBoundedLossless ==
    /\ [](\A c \in DOMAIN conns :
            /\ Len(conns[c].outq) <= OutCap
            /\ conns[c].wpc = "run" =>
                   conns[c].sent = conns[c].written \o conns[c].outq)
    /\ [](pc = "enq" =>
            (Len(conns[ws_tx].outq) >= OutCap => ~ ENABLED SendQueued))
    /\ [][(/\ (AnySendCommand /\ Accepts /\ lock = 0) \/ SendLocked
           /\ ws_tx # 0
           /\ conns[ws_tx].wpc = "run"
           /\ Len(conns[ws_tx].outq) >= OutCap)
          => (pc' \in {"enq", "panicked"} /\ conns' = conns)]_vars

\* A send_command is suspended on the full queue of a running writer
C20_Witness ==
    /\ pc = "enq"
    /\ conns[ws_tx].wpc = "run"
    /\ Len(conns[ws_tx].outq) = OutCap

----------------------------------------------------------------------------
(* A second connect() on the same session *)

\* The connections whose reader task has not ended
LiveReaders == {c \in DOMAIN conns : conns[c].rpc # "done"}

\* The connections whose writer task has not ended
LiveWriters == {c \in DOMAIN conns : conns[c].wpc # "done"}

\* C21: at most one reader task and one writer task of the session are live
\* at any time, and only the reader of the connection ws_tx feeds changes
\* the correlation map or a slot of it
C21_OneRouterOneWriter ==
    /\ [](Cardinality(LiveReaders) <= 1 /\ Cardinality(LiveWriters) <= 1)
    /\ [][nframes' # nframes => \A c \in DOMAIN conns : \A f \in Frames :
            (c # ws_tx /\ ReaderFrame(c, f))
            => (chan' = chan /\ response_channels' = response_channels)]_vars

----------------------------------------------------------------------------
(* LgtvRemote::on and parse_mac_address (remote.rs 225-255)               *)
(* A string is a sequence of one-letter strings, a byte an integer 0..255. *)

MaxOn == 2          \* calls of on() in a run

Radix == 16         \* from_str_radix(part, 16)
U8Max == 255        \* the greatest u8
MacParts == 6       \* parts.len() != 6, [0u8; 6]
HeaderLen == 6      \* the 0xFF bytes a magic packet starts with
PacketLen == 102    \* the length of a magic packet: 6 + 16 * 6

\* The delimiters of mac_str.split([':', '-'])
Delims == {":", "-"}

UpperDigits == <<"0", "1", "2", "3", "4", "5", "6", "7", "8", "9",
                 "A", "B", "C", "D", "E", "F">>
LowerDigits == <<"0", "1", "2", "3", "4", "5", "6", "7", "8", "9",
                 "a", "b", "c", "d", "e", "f">>

\* char::to_digit(16): the value of a hex digit of either case, -1 for None
ToDigit(ch) ==
    IF \E d \in 1..Radix : UpperDigits[d] = ch \/ LowerDigits[d] = ch
    THEN (CHOOSE d \in 1..Radix : UpperDigits[d] = ch \/ LowerDigits[d] = ch) - 1
    ELSE -1

\* str::split([':', '-']): the pieces between the delimiters, empty pieces
\* included; a string with n delimiters has n + 1 pieces, and piece k lies
\* between the (k-1)th and the kth delimiter
Split(s) ==
    LET at == {i \in 1..Len(s) : s[i] \in Delims}
        cut(k) == IF k = 0 THEN 0
                  ELSE IF k > Cardinality(at) THEN Len(s) + 1
                  ELSE CHOOSE i \in at : Cardinality({j \in at : j < i}) = k - 1
    IN [k \in 1..(Cardinality(at) + 1) |->
           SubSeq(s, cut(k - 1) + 1, cut(k) - 1)]

RECURSIVE Accumulate(_, _)
\* The digit loop of from_str_radix for u8: checked_mul by the radix and
\* checked_add of the digit; <<>> for Err, <<v>> for Ok(v)
Accumulate(digits, acc) ==
    IF digits = <<>> THEN <<acc>>
    ELSE IF ToDigit(digits[1]) < 0 THEN <<>>
    ELSE IF acc * Radix + ToDigit(digits[1]) > U8Max THEN <<>>
    ELSE Accumulate(Tail(digits), acc * Radix + ToDigit(digits[1]))

\* u8::from_str_radix(src, 16): the empty string is an error; one leading
\* "+" is taken off when digits follow it ("-" is no sign for an unsigned
\* type); leading zeros count as digits; <<>> for Err, <<v>> for Ok(v)
FromStrRadix(src) ==
    IF src = <<>> THEN <<>>
    ELSE IF src[1] = "+"
    THEN IF Len(src) = 1 THEN <<>> ELSE Accumulate(Tail(src), 0)
    ELSE Accumulate(src, 0)

\* The order in which parse_mac_address would store the bytes if it
\* filled the array from its end
ByteIndexReversed(i) == MacParts + 1 - i

\* The part that mac_bytes[i] is made of: parts[i] (line 251)
ByteIndex(i) == i

MacOk(bytes) == [ok |-> TRUE, bytes |-> bytes, err |-> ""]
MacErr(e) == [ok |-> FALSE, bytes |-> <<>>, err |-> e]

\* The body of parse_mac_address once mac_str is split into `parts`
ParseParts(parts) ==
    IF Len(parts) # MacParts
    THEN MacErr("MAC address should have 6 parts")
    ELSE IF \E i \in 1..MacParts : FromStrRadix(parts[i]) = <<>>
    THEN MacErr("Invalid hex value")
    ELSE MacOk([i \in 1..MacParts |-> FromStrRadix(parts[ByteIndex(i)])[1]])

\* LgtvRemote::parse_mac_address (the split is made once: `parts` ranges
\* over the one value of Split(mac_str))
parse_mac_address(mac_str) ==
    CHOOSE r \in {ParseParts(parts) : parts \in {Split(mac_str)}} : TRUE

\* MagicPacket::new(&mac_bytes) of the wake_on_lan crate: six 0xFF bytes,
\* then the address sixteen times
MagicPacketNew(mac) ==
    [i \in 1..PacketLen |->
        IF i <= HeaderLen THEN U8Max
        ELSE mac[((i - HeaderLen - 1) % MacParts) + 1]]

\* on() gated like a command that goes through the session
WakeCallableIfReady == pc = "idle" /\ ws_tx # 0 /\ handshake_done

\* When the caller can call on(): whenever it is not suspended in another
\* call of the session. on() reads mac_address only (lines 226-231).
WakeCallable == pc = "idle"

\* What on() finds in mac_address: nothing, or what parse_mac_address
\* makes of the string
Parsed ==
    IF mac_address = <<>> THEN <<>> ELSE <<parse_mac_address(mac_address[1])>>

\* What on() returns when `parsed` is what it found and, if it gets that
\* far, `io` is what magic_packet.send() returned
OnResult(parsed, io) ==
    IF parsed = <<>>
    THEN Err("on", "CommandError: MAC address is required for power on")
    ELSE IF ~parsed[1].ok
    THEN Err("on", "CommandError: Invalid MAC address format")
    ELSE IF io = "fail"
    THEN Err("on", "CommandError: Failed to send Wake-on-LAN packet")
    ELSE Ok("on")

\* Whether on() gets as far as MagicPacket::new when no address check is
\* made: a missing or malformed address wakes the all-zero address
ReachesPacketAlways(parsed) == TRUE

\* Whether on() gets as far as MagicPacket::new: both `?` of lines 226-231
\* passed
ReachesPacket(parsed) == parsed # <<>> /\ parsed[1].ok

\* mac_bytes, the address MagicPacket::new is given: the array is all zero
\* (line 249) until the parts are stored in it
PacketAddress(parsed) ==
    IF parsed # <<>> /\ parsed[1].ok THEN parsed[1].bytes
    ELSE [i \in 1..MacParts |-> 0]

\* on(): it has no await point before it returns, a call is one step. `io`
\* is the outcome of magic_packet.send(), which binds a UDP socket and
\* broadcasts the packet.
On(io) ==
    /\ mode = "remote"
    /\ WakeCallable
    /\ wake.n < MaxOn
    /\ \E parsed \in {Parsed} :
       \E packet \in {MagicPacketNew(PacketAddress(parsed))} :
          wake' = [n |-> wake.n + 1,
                   parsed |-> parsed,
                   built |-> IF ReachesPacket(parsed)
                             THEN Append(wake.built, packet)
                             ELSE wake.built,
                   sent |-> IF ReachesPacket(parsed) /\ io = "ok"
                            THEN Append(wake.sent, packet)
                            ELSE wake.sent,
                   ret |-> OnResult(parsed, io)]
    /\ UNCHANGED <<mode, mac_address, scan, ctor, cursor, remoteVars, auth>>

----------------------------------------------------------------------------
(* on() called on a session: the addresses tried and the session states   *)

\* The parts of the example address AA:BB:CC:DD:EE:FF, and a seventh part
BaseParts == << <<"A", "A">>, <<"B", "B">>, <<"C", "C">>, <<"D", "D">>,
                <<"E", "E">>, <<"F", "F">>, <<"0", "1">> >>

\* Parts put in the place of one part of the example address
TestParts == { <<>>, <<"7">>, <<"0", "f">>, <<"G", "G">>, <<"+", "A">>,
               <<"+">>, <<"0", "A", "A">>, <<"1", "0", "0">>,
               <<"A", "A", "A">>, <<" ", "A">>, <<"+", "0", "1", "0">> }

\* The delimiters written between the parts: colons, hyphens, or both
SepStyles == { [i \in 1..MacParts |-> ":"], [i \in 1..MacParts |-> "-"],
               [i \in 1..MacParts |-> IF i % 2 = 1 THEN ":" ELSE "-"] }

RECURSIVE Join(_, _)
Join(parts, seps) ==
    IF Len(parts) = 1 THEN parts[1]
    ELSE parts[1] \o <<seps[1]>> \o Join(Tail(parts), Tail(seps))

\* The strings given as mac: 5, 6 or 7 parts of the example address, the
\* first or the sixth of them possibly replaced
MacInputs ==
    { Join([i \in 1..n |-> IF i = k THEN p ELSE BaseParts[i]], sep) :
        n \in (MacParts - 1)..(MacParts + 1), k \in {1, MacParts},
        p \in TestParts \cup {BaseParts[1]}, sep \in SepStyles }

ExampleMac == Join(SubSeq(BaseParts, 1, MacParts), [i \in 1..MacParts |-> ":"])

\* A session that was never connected, or one whose connect has returned
\* Ok with the registration envelope still in the queue, made with no mac
\* or with one of MacInputs
WakeInit ==
    /\ mode = "remote"
    /\ client_key = "X"
    /\ command_count = U32Of(0, 0)
    /\ handshake_done \in BOOLEAN
    /\ ws_tx = IF handshake_done THEN 1 ELSE 0
    /\ conns = IF handshake_done
               THEN << [NewConn EXCEPT !.sinkrx = FALSE, !.hs = TRUE,
                                       !.sent = <<HelloMsg(client_key)>>,
                                       !.outq = <<HelloMsg(client_key)>>] >>
               ELSE <<>>
    /\ response_channels = <<>>
    /\ lock = 0
    /\ chan = <<>>
    /\ pc = "idle"
    /\ cur = 0
    /\ ret = NoRet
    /\ ncalls = 0
    /\ nframes = 0
    /\ skipped = 0
    /\ auth = AuthInit
    /\ mac_address \in {<<>>} \cup {<<m>> : m \in MacInputs}
    /\ wake = NoWake
    /\ ctor = NoCtor
    /\ cursor = NoCursor
    /\ scan = NoScan

\* on() is called, while the tasks of the connection run and the peer may
\* close the stream
WakeNext ==
    \/ \E io \in {"ok", "fail"} : On(io)
    \/ \E c \in DOMAIN conns : StreamClose(c)
    \/ \E c \in DOMAIN conns : ReaderEnd(c)
    \/ \E c \in DOMAIN conns : WriterSend(c)

SpecWake == WakeInit /\ [][WakeNext]_vars

\* A part of 1 or 2 hex digits
HexPart(p) ==
    /\ Len(p) \in {1, 2}
    /\ \A i \in 1..Len(p) : ToDigit(p[i]) >= 0

\* The byte that a part of 1 or 2 hex digits denotes
PartValue(p) ==
    IF Len(p) = 1 THEN ToDigit(p[1])
    ELSE Radix * ToDigit(p[1]) + ToDigit(p[2])

\* The shape of an address: exactly 6 parts of 1 or 2 hex digits
SixHexParts(s) ==
    /\ Len(Split(s)) = MacParts
    /\ \A i \in 1..MacParts : HexPart(Split(s)[i])

\* C26: parse_mac_address accepts a string exactly when it splits on ':' or
\* '-' into exactly 6 parts of 1 or 2 hex digits each, and then returns the
\* bytes those parts denote; it rejects every other string with a format
\* error
C26_ParserAcceptsExactlySixHexParts ==
    (wake.parsed # <<>>) =>
        LET r == wake.parsed[1]
            s == mac_address[1]
        IN /\ r.ok <=> SixHexParts(s)
           /\ r.ok => r.bytes = [i \in 1..MacParts |-> PartValue(Split(s)[i])]
           /\ ~r.ok => r.err \in {"MAC address should have 6 parts",
                                  "Invalid hex value"}

\* The errors on() returns
CommandErrors == {"CommandError: MAC address is required for power on",
                  "CommandError: Invalid MAC address format",
                  "CommandError: Failed to send Wake-on-LAN packet"}

\* C27: a call of on() on a session without an address, or with one that
\* parse_mac_address rejects, returns CommandError and builds and sends no
\* packet; a packet was built only for an address that is there and parsed
C27_NoPacketWithoutParsedAddress ==
    /\ [][(/\ wake'.n # wake.n
           /\ \/ mac_address = <<>>
              \/ ~parse_mac_address(mac_address[1]).ok)
          => (/\ wake'.built = wake.built
              /\ wake'.sent = wake.sent
              /\ wake'.ret.res = "Err"
              /\ wake'.ret.err \in CommandErrors)]_vars
    /\ [](wake.built # <<>> =>
            /\ mac_address # <<>>
            /\ wake.parsed # <<>>
            /\ wake.parsed[1].ok)
    /\ [](\A k \in 1..Len(wake.sent) : wake.sent[k] \in
            {wake.built[j] : j \in 1..Len(wake.built)})

\* on() has returned an error for an address that did not parse, and no
\* packet was built
C27_Witness ==
    /\ wake.n > 0
    /\ mac_address # <<>>
    /\ ~wake.parsed[1].ok
    /\ wake.built = <<>>
    /\ wake.ret = Err("on", "CommandError: Invalid MAC address format")

\* C28: the packet built for an address of 6 parts of 1 or 2 hex digits
\* has 102 bytes: six 0xFF bytes, then sixteen times the 6 bytes the parts
\* denote, in the order of the string; for AA:BB:CC:DD:EE:FF these are
\* AA BB CC DD EE FF
C28_WakePayloadLayout ==
    /\ \A k \in 1..Len(wake.built) :
          SixHexParts(mac_address[1]) =>
             LET p == wake.built[k]
                 parts == Split(mac_address[1])
             IN /\ Len(p) = 102
                /\ \A i \in 1..6 : p[i] = 255
                /\ \A r \in 0..15 : \A j \in 1..6 :
                      p[6 + 6 * r + j] = PartValue(parts[j])
    /\ (mac_address = <<ExampleMac>> /\ wake.built # <<>>) =>
          \A r \in 0..15 :
             SubSeq(wake.built[1], 7 + 6 * r, 12 + 6 * r)
                = <<170, 187, 204, 221, 238, 255>>

\* The packet for AA:BB:CC:DD:EE:FF was sent
C28_Witness ==
    /\ mac_address = <<ExampleMac>>
    /\ wake.sent # <<>>
    /\ wake.ret = Ok("on")

\* C30: on() can be called whenever the caller is not inside another call,
\* whatever the state of the connection; it returns in the same step (it
\* waits for nothing) and leaves command_count, handshake_done, the map,
\* the channels, ws_tx and every queue as they were
C30_WakeIndependentOfConnection ==
    /\ []((mode = "remote" /\ pc = "idle" /\ wake.n < MaxOn)
            => ENABLED On("ok"))
    /\ [][wake' # wake =>
            (/\ wake'.ret.op = "on"
             /\ pc' = pc
             /\ UNCHANGED <<command_count, handshake_done, response_channels,
                            chan, ws_tx, conns, lock>>)]_vars

\* on() has returned Ok on a session whose stream is closed and whose
\* reader has ended
C30_Witness ==
    /\ wake.ret = Ok("on")
    /\ ws_tx # 0
    /\ conns[ws_tx].stream = "closed"
    /\ conns[ws_tx].rpc = "done"

\* C29: a send_request that receives a frame returns Ok with the payload
\* of that frame, and with the empty object when the frame has no payload;
\* the result holds nothing else of the frame
C29_RequestReturnsPayloadOrEmpty ==
    [][(RequestRecv /\ chan[cur].buf # <<>>) =>
          LET f == Head(chan[cur].buf)
          IN /\ ret'.op = "send_request"
             /\ ret'.res = "Ok"
             /\ f.pl # "none" => ret'.val = f.pl
             /\ f.pl = "none" => ret'.val = "{}"]_vars

\* A send_request has returned the empty object for a frame that had no
\* payload
C29_Witness ==
    /\ ret = OkVal("send_request", "{}")
    /\ \E k \in DOMAIN chan : chan[k].kind = "request" /\ chan[k].got = 1

----------------------------------------------------------------------------
(* scan_for_tvs (scan.rs). A run of the Scan sub-command has mode "scan".  *)

attempts == 4       \* let attempts = 4

\* The vendor marker of response.contains("LG")
Marker == <<"L", "G">>

\* str::contains: pat is a substring of text
Contains(text, pat) ==
    \E i \in 1..(Len(text) - Len(pat) + 1) :
       SubSeq(text, i, i + Len(pat) - 1) = pat

\* The characters of a reply that the marker test can tell apart
Texts == { <<>>, <<"L", "G">>, <<"G", "L">>, <<"x", "L", "G">>,
           <<"l", "g">> }

\* What the two regular expressions capture in a reply: a uuid, a name
Headers == { [uuid |-> <<>>, name |-> <<>>],
             [uuid |-> <<"u">>, name |-> <<"n">>],
             [uuid |-> <<"v">>, name |-> <<>>] }

\* The datagrams recv_from may yield: bytes that are valid UTF-8 or not,
\* from a source address (ip and port)
Datagrams == [utf8 : BOOLEAN, text : Texts, hdr : Headers,
              ip : 1..attempts, port : {1900, 1901}]

\* A decoding that keeps the text of bytes that are not valid UTF-8
FromUtf8Lossy(d) == d.text

\* str::from_utf8(&buf[..len]).unwrap_or("") (line 41)
FromUtf8(d) == IF d.utf8 THEN d.text ELSE <<>>

\* The TvDevice of lines 56-60: the captures, and addr.ip().to_string(),
\* which leaves the port out
Device(d) == [uuid |-> d.hdr.uuid, tv_name |-> d.hdr.name, address |-> d.ip]

\* A de-duplication that keeps every device
KeepsAll(device, seen) == TRUE

\* Line 78: the device is kept when its address was not seen
Keeps(device, seen) == device.address \notin seen

RECURSIVE Dedup(_, _, _)
\* The loop of lines 77-82 over what is left of `addresses`
Dedup(rest, unique_addresses, seen_addresses) ==
    IF rest = <<>> THEN unique_addresses
    ELSE IF Keeps(Head(rest), seen_addresses)
    THEN Dedup(Tail(rest), Append(unique_addresses, Head(rest)),
               seen_addresses \cup {Head(rest).address})
    ELSE Dedup(Tail(rest), unique_addresses, seen_addresses)

\* A loop that makes one round more
RoundsLeftOneMore(i) == i <= attempts

\* for _ in 0..attempts, after i rounds
RoundsLeft(i) == i < attempts

\* A scan that gives up when recv_from fails
OnRecvErrReturn == "return"

\* What the scan does when recv_from returns Err (a timeout too): it logs
\* and goes on with the round (lines 65-67)
OnRecvErr == "continue"

ScanOk(list) == [res |-> "Ok", err |-> "", list |-> list]
ScanErr(e) == [res |-> "Err", err |-> e, list |-> <<>>]

ScanInit ==
    /\ mode = "scan"
    /\ client_key = "X"
    /\ command_count = U32Of(0, 0)
    /\ handshake_done = FALSE
    /\ response_channels = <<>>
    /\ ws_tx = 0
    /\ lock = 0
    /\ chan = <<>>
    /\ conns = <<>>
    /\ pc = "idle"
    /\ cur = 0
    /\ ret = NoRet
    /\ ncalls = 0
    /\ nframes = 0
    /\ skipped = 0
    /\ auth = AuthInit
    /\ mac_address = <<>>
    /\ wake = NoWake
    /\ ctor = NoCtor
    /\ cursor = NoCursor
    /\ scan = [NoScan EXCEPT !.pc = "bind"]

ScanOthers == <<mode, mac_address, wake, ctor, cursor, remoteVars, auth>>

\* Lines 24-25: UdpSocket::bind and set_read_timeout, each with `?`
ScanBind(r) ==
    /\ mode = "scan" /\ scan.pc = "bind"
    /\ scan' = IF r = "ok" THEN [scan EXCEPT !.pc = "send"]
               ELSE [scan EXCEPT !.pc = "done",
                                 !.ret = ScanErr("IoError: " \o r)]
    /\ UNCHANGED ScanOthers

\* Line 36: socket.send_to(..)? at the start of a round
ScanSend(ok) ==
    /\ mode = "scan" /\ scan.pc = "send"
    /\ RoundsLeft(scan.i)
    /\ scan' = IF ok THEN [scan EXCEPT !.pc = "recv", !.sends = @ + 1]
               ELSE [scan EXCEPT !.pc = "done",
                                 !.ret = ScanErr("IoError: send_to")]
    /\ UNCHANGED ScanOthers

\* Lines 39-64 and 70: recv_from yields a datagram; it is decoded, tested
\* for the marker and pushed or logged, and the round ends with the sleep
ScanRecv(d) ==
    /\ mode = "scan" /\ scan.pc = "recv"
    /\ scan' = [scan EXCEPT !.pc = "send", !.i = @ + 1, !.recvs = @ + 1,
                            !.addresses = IF Contains(FromUtf8(d), Marker)
                                          THEN Append(@, Device(d))
                                          ELSE @]
    /\ UNCHANGED ScanOthers

\* Lines 65-67 and 70: recv_from returns Err, the read timeout included
ScanRecvErr ==
    /\ mode = "scan" /\ scan.pc = "recv"
    /\ scan' = IF OnRecvErr = "continue"
               THEN [scan EXCEPT !.pc = "send", !.i = @ + 1]
               ELSE [scan EXCEPT !.pc = "done",
                                 !.ret = ScanErr("IoError: recv_from")]
    /\ UNCHANGED ScanOthers

\* Lines 73-84: the loop is over; de-duplicate and return
ScanReturn ==
    /\ mode = "scan" /\ scan.pc = "send"
    /\ ~RoundsLeft(scan.i)
    /\ scan' = [scan EXCEPT !.pc = "done",
                            !.ret = ScanOk(Dedup(scan.addresses, <<>>, {}))]
    /\ UNCHANGED ScanOthers

ScanNext ==
    \/ \E r \in {"ok", "bind", "set_read_timeout"} : ScanBind(r)
    \/ \E ok \in BOOLEAN : ScanSend(ok)
    \/ \E d \in Datagrams : ScanRecv(d)
    \/ ScanRecvErr
    \/ ScanReturn

SpecScan == ScanInit /\ [][ScanNext]_vars

\* The index of the first device of `acc` that has address a
FirstFrom(acc, a) ==
    CHOOSE k \in 1..Len(acc) :
       /\ acc[k].address = a
       /\ \A j \in 1..(k - 1) : acc[j].address # a

\* C22: the list scan_for_tvs returns has no two devices with the same
\* address, has a device for every address a reply was accepted from, each
\* being the first accepted reply from that address, and is in the order
\* in which the addresses were first seen
C22_DedupFirstSeen ==
    (scan.pc = "done" /\ scan.ret.res = "Ok") =>
        LET out == scan.ret.list
            acc == scan.addresses
        IN /\ \A i, j \in 1..Len(out) :
                 i < j => out[i].address # out[j].address
           /\ \A k \in 1..Len(acc) :
                 \E i \in 1..Len(out) : out[i].address = acc[k].address
           /\ \A i \in 1..Len(out) :
                 /\ \E k \in 1..Len(acc) : acc[k].address = out[i].address
                 /\ out[i] = acc[FirstFrom(acc, out[i].address)]
           /\ \A i, j \in 1..Len(out) :
                 i < j => FirstFrom(acc, out[i].address)
                             < FirstFrom(acc, out[j].address)

\* A scan has returned two devices after it accepted two different replies
\* from one address and then a reply from another address
C22_Witness ==
    /\ scan.pc = "done" /\ scan.ret.res = "Ok"
    /\ Len(scan.addresses) = 3
    /\ scan.addresses[1].address = scan.addresses[2].address
    /\ scan.addresses[1].uuid # scan.addresses[2].uuid
    /\ scan.addresses[3].address # scan.addresses[1].address
    /\ Len(scan.ret.list) = 2

\* C23: when bind and set_read_timeout have succeeded, scan_for_tvs
\* returns Ok
C23_OkWheneverSocketReady ==
    (scan.pc = "done" /\ scan.ret.err \notin {"IoError: bind",
                                              "IoError: set_read_timeout"})
        => scan.ret.res = "Ok"

\* What holds in the case of C23: no reply and no failure to read one ends
\* the scan; a scan whose 4 probes were all sent returns Ok, and its list
\* is empty when no reply was accepted; the one failure after bind and
\* set_read_timeout that is returned is that of send_to
C23_RepliesNeverFatal ==
    /\ [][scan.pc = "recv" => (scan'.pc = "send" /\ scan'.ret = scan.ret)]_vars
    /\ []((scan.pc = "done" /\ scan.sends = 4) => scan.ret.res = "Ok")
    /\ []((scan.pc = "done" /\ scan.ret.res = "Ok" /\ scan.addresses = <<>>)
            => scan.ret.list = <<>>)
    /\ []((scan.pc = "done" /\ scan.ret.res = "Err")
            => scan.ret.err \in {"IoError: bind", "IoError: set_read_timeout",
                                 "IoError: send_to"})

\* A scan has returned Ok with an empty list after a round without a reply
\* and a round whose reply was not accepted
C23_Witness ==
    /\ scan.pc = "done"
    /\ scan.ret = ScanOk(<<>>)
    /\ scan.recvs \in 1..3

\* The datagrams of the claim: valid UTF-8 with "LG" in the text
Marked(d) ==
    /\ d.utf8
    /\ \E i \in 1..(Len(d.text) - 1) : d.text[i] = "L" /\ d.text[i + 1] = "G"

\* The datagrams whose source and captures are those of device `dev`
From(dev) ==
    {d \in Datagrams : /\ d.ip = dev.address
                       /\ d.hdr.uuid = dev.uuid
                       /\ d.hdr.name = dev.tv_name}

\* C24: a device is added only by the read of a datagram that is valid
\* UTF-8 and contains "LG", and it is the device made of that datagram; the
\* read of a datagram that is not valid UTF-8 or has no "LG" adds none;
\* every device returned was added that way
C24_OnlyMarkedRepliesAccepted ==
    /\ [][scan'.addresses # scan.addresses =>
            /\ Len(scan'.addresses) = Len(scan.addresses) + 1
            /\ scan.addresses = SubSeq(scan'.addresses, 1, Len(scan.addresses))
            /\ LET dev == scan'.addresses[Len(scan'.addresses)]
               IN /\ \E d \in From(dev) : Marked(d) /\ ScanRecv(d)
                  /\ \A d \in From(dev) : ScanRecv(d) => Marked(d)]_vars
    /\ [](\A i \in 1..Len(scan.ret.list) :
            \E k \in 1..Len(scan.addresses) :
               scan.ret.list[i] = scan.addresses[k])

\* A scan has returned one device after it read four replies
C24_Witness ==
    /\ scan.pc = "done" /\ scan.ret.res = "Ok"
    /\ scan.recvs = 4
    /\ Len(scan.ret.list) = 1

\* C25: at most 4 probes are sent and a scan that returns Ok has sent
\* exactly 4; every probe is followed by at most one read, and the read of
\* a reply ends the round; so at most 4 replies are considered and at most
\* 4 devices are returned
C25_FourRounds ==
    /\ [](/\ scan.sends <= 4
          /\ scan.recvs <= scan.sends
          /\ Len(scan.addresses) <= scan.recvs
          /\ Len(scan.ret.list) <= 4)
    /\ []((scan.pc = "done" /\ scan.ret.res = "Ok") => scan.sends = 4)
    /\ [][scan'.sends # scan.sends =>
            (/\ scan'.sends = scan.sends + 1
             /\ scan.sends = scan.i
             /\ scan'.pc = "recv")]_vars
    /\ [][scan.pc = "recv" =>
            (/\ scan'.recvs \in {scan.recvs, scan.recvs + 1}
             /\ scan'.i = scan.i + 1
             /\ scan'.sends = scan.sends
             /\ scan'.pc # "recv")]_vars

\* A scan has returned 4 devices
C25_Witness ==
    /\ scan.pc = "done"
    /\ scan.sends = 4
    /\ Len(scan.ret.list) = 4

----------------------------------------------------------------------------
(* The handshake flag *)

\* C31: handshake_done changes only from false to true, only in the step
\* in which a waiting connect takes from the sink of its connection a frame
\* whose payload has a client-key; a frame without payload or without
\* client-key that a waiting connect takes is consumed, leaves the flag as
\* it was and connect waiting
C31_FlagSetOnlyByKeyedFrame ==
    /\ [][handshake_done' # handshake_done =>
            (/\ ~handshake_done /\ handshake_done'
             /\ pc = "wait" /\ pc' = "idle"
             /\ conns[ws_tx].sink # <<>>
             /\ Head(conns[ws_tx].sink) \in {"nonstr", "K"}
             /\ ConnectRecv)]_vars
    /\ [][(/\ pc = "wait"
           /\ conns[ws_tx].sink # <<>>
           /\ Head(conns[ws_tx].sink) \in {"none", "nokey"}
           /\ ConnectRecv)
          => (/\ handshake_done' = handshake_done
              /\ pc' = "wait"
              /\ ret' = ret
              /\ conns'[ws_tx].sink = Tail(conns[ws_tx].sink))]_vars

\* The first connect has taken a frame without client-key from the sink
\* and waits on, the flag false
C31_Witness ==
    /\ mode = "remote" /\ pc = "wait"
    /\ Len(conns) = 1
    /\ nframes = 1 /\ skipped = 0
    /\ conns[1].sink = <<>> /\ conns[1].rpc = "next"
    /\ ~handshake_done

----------------------------------------------------------------------------
(* Calls of send_command that return an error *)

\* The channel of the send_command call that takes a step: the one the
\* caller is suspended in, or the one a new call makes
CallChan == IF pc = "idle" THEN Len(chan) + 1 ELSE cur

\* C32: when send_command returns an error (the handshake is not
\* completed, or the request could not be enqueued), the correlation map
\* has no entry for the id of that call
C32_FailedCallLeavesNoEntry ==
    [][(/\ pc \in {"idle", "lock", "enq"}
        /\ pc' = "idle"
        /\ ret'.res = "Err"
        /\ AnySendCommand \/ SendLocked \/ SendQueued)
       => IF ret'.err = "CommandError: Handshake not completed"
          THEN response_channels' = response_channels
          ELSE chan'[CallChan].id \notin DOMAIN response_channels']_vars

\* C33: a send_command rejected for the handshake leaves command_count, the
\* map and every outbound queue as they were; so the counter of a session
\* that started at 0 equals the number of calls that got an id, whatever
\* the number of rejected calls
C33_RejectedCallConsumesNoId ==
    /\ [][(AnySendCommand /\ ret'.err = "CommandError: Handshake not completed")
          => (/\ command_count' = command_count
              /\ response_channels' = response_channels
              /\ \A c \in DOMAIN conns :
                    /\ conns'[c].outq = conns[c].outq
                    /\ conns'[c].sent = conns[c].sent)]_vars
    /\ [](mode = "remote" => command_count = U32Of(0, ncalls))

\* A call was rejected on a session that was never connected
C33_Witness ==
    /\ ret.err = "CommandError: Handshake not completed"
    /\ ws_tx = 0
    /\ command_count = U32Of(0, 0)

\* C34: whenever handshake_done is true ws_tx is set; no send_command
\* returns ConnectionError("WebSocket not connected"); and a call on a
\* session without an outbound handle is rejected with CommandError
C34_FlagImpliesHandle ==
    /\ [](mode = "remote" => (handshake_done => ws_tx # 0))
    /\ [](ret.op \in {"send_command", "send_request"} =>
            ret.err # "ConnectionError: WebSocket not connected")
    /\ [][(AnySendCommand /\ ws_tx = 0) =>
            (/\ ret'.res = "Err"
             /\ ret'.err = "CommandError: Handshake not completed")]_vars

\* A connect failed to open the transport on a session whose handshake is
\* done
C34_Witness ==
    /\ handshake_done
    /\ ws_tx # 0
    /\ ret = Err("connect", "WebSocketError")

\* C35: on every connection the first message written to the transport is
\* the registration envelope, and every request written comes after it
C35_HelloWrittenFirst ==
    \A c \in DOMAIN conns :
       /\ conns[c].written # <<>> => conns[c].written[1].t = "register"
       /\ \A i \in 1..Len(conns[c].written) :
             conns[c].written[i].t = "request" =>
                \E j \in 1..(i - 1) : conns[c].written[j].t = "register"

\* The writer of a connection has written the envelope and then a request
C35_Witness ==
    \E c \in DOMAIN conns :
       /\ Len(conns[c].written) >= 2
       /\ conns[c].written[1].t = "register"
       /\ conns[c].written[2].t = "request"

----------------------------------------------------------------------------
(* The width of command_count *)

\* C36: every change of command_count adds exactly 1 to its value, so that
\* it never decreases and never comes back to a value it had; a call made
\* with the counter at its maximum returns and leaves the caller able to go
\* on
C36_CounterGrowsByOne ==
    /\ [][command_count' # command_count =>
            \/ /\ command_count'.hi = command_count.hi
               /\ command_count'.lo = command_count.lo + 1
            \/ /\ command_count'.hi = command_count.hi + 1
               /\ command_count.lo = U16 - 1
               /\ command_count'.lo = 0]_vars
    /\ [][(AnySendCommand /\ handshake_done) =>
            (command_count' # command_count /\ pc' # "panicked")]_vars

----------------------------------------------------------------------------
(* LgtvRemote::new (remote.rs 28-68). A run that follows the constructor   *)
(* has mode "new".                                                         *)

\* The hostnames tried: "tv" resolves to an address, "gone" resolves to no
\* address, "bad" makes the resolver fail
Hostnames == {"tv", "gone", "bad"}

\* The arguments of new: ip, mac, key and hostname are Options
NewArgs == [name : {"LG"},
            ip : {<<>>, <<"10.0.0.2">>},
            mac : {<<>>, <<ExampleMac>>},
            key : {<<>>, <<"X">>, <<"Y">>},
            hostname : {<<>>} \cup {<<h>> : h \in Hostnames},
            ssl : BOOLEAN]

\* (host, 0).to_socket_addrs(): an error, or the addresses found
Resolve(host) ==
    IF host = "bad" THEN [res |-> "Err", addrs |-> <<>>]
    ELSE IF host = "gone" THEN [res |-> "Ok", addrs |-> <<>>]
    ELSE [res |-> "Ok", addrs |-> <<"10.0.0.9">>]

\* The error of a constructor that looks at the address before the key
NewErrorAddressFirst(a) ==
    IF a.ip = <<>> /\ a.hostname = <<>>
    THEN "ConnectionError: Either IP or hostname is required"
    ELSE IF a.key = <<>> THEN "AuthError: Client key is required"
    ELSE IF a.ip # <<>> THEN ""
    ELSE IF Resolve(a.hostname[1]).res = "Err" THEN "IoError"
    ELSE IF Resolve(a.hostname[1]).addrs = <<>>
    THEN "ConnectionError: Could not resolve hostname"
    ELSE ""

\* The error new returns, "" when it returns none: the key is tested first
\* (lines 36-37), then the address (lines 39-54)
NewError(a) ==
    IF a.key = <<>> THEN "AuthError: Client key is required"
    ELSE IF a.ip # <<>> THEN ""
    ELSE IF a.hostname = <<>>
    THEN "ConnectionError: Either IP or hostname is required"
    ELSE IF Resolve(a.hostname[1]).res = "Err" THEN "IoError"
    ELSE IF Resolve(a.hostname[1]).addrs = <<>>
    THEN "ConnectionError: Could not resolve hostname"
    ELSE ""

\* ip_addr of lines 39-54 when there is no error
IpAddr(a) == IF a.ip # <<>> THEN a.ip[1] ELSE Resolve(a.hostname[1]).addrs[1]

\* The Self of lines 56-67
NewSelf(a) ==
    [client_key |-> a.key[1],
     mac_address |-> a.mac,
     ip |-> IpAddr(a),
     hostname |-> a.hostname,
     name |-> a.name,
     command_count |-> U32Of(0, 0),
     ssl |-> a.ssl,
     handshake_done |-> FALSE,
     response_channels |-> <<>>,
     ws_tx |-> 0]

\* LgtvRemote::new
new(a) ==
    IF NewError(a) # ""
    THEN [res |-> "Err", err |-> NewError(a), self |-> <<>>]
    ELSE [res |-> "Ok", err |-> "", self |-> <<NewSelf(a)>>]

NewInit ==
    /\ mode = "new"
    /\ client_key = "X"
    /\ command_count = U32Of(0, 0)
    /\ handshake_done = FALSE
    /\ response_channels = <<>>
    /\ ws_tx = 0
    /\ lock = 0
    /\ chan = <<>>
    /\ conns = <<>>
    /\ pc = "idle"
    /\ cur = 0
    /\ ret = NoRet
    /\ ncalls = 0
    /\ nframes = 0
    /\ skipped = 0
    /\ auth = AuthInit
    /\ mac_address = <<>>
    /\ wake = NoWake
    /\ scan = NoScan
    /\ cursor = NoCursor
    /\ \E a \in NewArgs : ctor = [args |-> <<a>>, ret |-> <<>>]

\* new is called with the arguments and returns
NewCall ==
    /\ mode = "new"
    /\ ctor.ret = <<>>
    /\ ctor' = [ctor EXCEPT !.ret = <<new(ctor.args[1])>>]
    /\ UNCHANGED <<mode, mac_address, wake, scan, cursor, remoteVars, auth>>

NewNext == NewCall

SpecNew == NewInit /\ [][NewNext]_vars

\* C37: new returns a session only when a key and an ip or a hostname are
\* given; without a key it returns AuthError, whatever the addresses; with
\* a key and neither address it returns ConnectionError; and a session it
\* returns has command_count 0, handshake_done false, an empty map and no
\* outbound handle
C37_NewChecksAndStartsDisconnected ==
    (ctor.ret # <<>>) =>
        LET a == ctor.args[1]
            r == ctor.ret[1]
        IN /\ r.res = "Ok" =>
                 (a.key # <<>> /\ (a.ip # <<>> \/ a.hostname # <<>>))
           /\ a.key = <<>> =>
                 (r.res = "Err" /\ r.err = "AuthError: Client key is required")
           /\ (a.key # <<>> /\ a.ip = <<>> /\ a.hostname = <<>>) =>
                 (/\ r.res = "Err"
                  /\ r.err = "ConnectionError: Either IP or hostname is required")
           /\ r.res = "Ok" =>
                 (/\ r.self[1].command_count = [hi |-> 0, lo |-> 0]
                  /\ r.self[1].handshake_done = FALSE
                  /\ r.self[1].response_channels = <<>>
                  /\ r.self[1].ws_tx = 0
                  /\ r.self[1].client_key = a.key[1])

\* new was called without key and without address and has returned
\* AuthError
C37_Witness ==
    /\ ctor.ret # <<>>
    /\ ctor.args[1].key = <<>>
    /\ ctor.args[1].ip = <<>> /\ ctor.args[1].hostname = <<>>
    /\ ctor.ret[1].err = "AuthError: Client key is required"

(***************************************************************************)
(* LgtvCursor::execute (cursor.rs 69-116) and send_button (cursor.rs       *)
(* 58-67). A run that follows one call of execute on a connected cursor:   *)
(* every send on the pointer socket either delivers the frame or fails.    *)
(***************************************************************************)

\* Longest button list of a run
MaxButtons == 4

\* The frame of each recognized name: the arms of the match in execute and
\* the text each of up(), down(), ... hands to send_button
ButtonData ==
    [up           |-> "type:button\nname:UP\n\n",
     down         |-> "type:button\nname:DOWN\n\n",
     left         |-> "type:button\nname:LEFT\n\n",
     right        |-> "type:button\nname:RIGHT\n\n",
     click        |-> "type:click\n\n\n",
     back         |-> "type:button\nname:BACK\n\n",
     enter        |-> "type:button\nname:ENTER\n\n",
     home         |-> "type:button\nname:HOME\n\n",
     exit         |-> "type:button\nname:EXIT\n\n",
     red          |-> "type:button\nname:RED\n\n",
     green        |-> "type:button\nname:GREEN\n\n",
     yellow       |-> "type:button\nname:YELLOW\n\n",
     blue         |-> "type:button\nname:BLUE\n\n",
     channel_up   |-> "type:button\nname:CHANNELUP\n\n",
     channel_down |-> "type:button\nname:CHANNELDOWN\n\n",
     volume_up    |-> "type:button\nname:VOLUMEUP\n\n",
     volume_down  |-> "type:button\nname:VOLUMEDOWN\n\n",
     play         |-> "type:button\nname:PLAY\n\n",
     pause        |-> "type:button\nname:PAUSE\n\n",
     stop         |-> "type:button\nname:STOP\n\n",
     rewind       |-> "type:button\nname:REWIND\n\n",
     fast_forward |-> "type:button\nname:FASTFORWARD\n\n",
     asterisk     |-> "type:button\nname:ASTERISK\n\n"]

\* A name with an arm of its own in the match (the match is case sensitive)
IsButton(b) == b \in DOMAIN ButtonData

\* The names the runs draw their lists from: three recognized ones, and two
\* that fall to the `_` arm
TestButtons == {"up", "click", "asterisk", "UP", "bogus"}

ButtonLists == UNION {[1..n -> TestButtons] : n \in 0..MaxButtons}

\* Outcomes of ws.send on the pointer socket
SendResults == {"ok", "err"}

CursorOk == [res |-> "Ok", err |-> ""]

CursorErr(e) == [res |-> "Err", err |-> e]

\* send_button: with a socket, the frame is written or the error of the send
\* is returned; without one, ConnectionError
send_button(c, button_data, io) ==
    IF c.websocket
    THEN IF io = "ok"
         THEN [res |-> "Ok", err |-> "", sent |-> Append(c.sent, button_data)]
         ELSE [res |-> "Err", err |-> "WebSocketError", sent |-> c.sent]
    ELSE [res |-> "Err", err |-> "ConnectionError: WebSocket not connected", sent |-> c.sent]

\* The end of one turn of the loop: the next name, or Ok(()) after the last
Advance(c) ==
    IF c.i + 1 = Len(c.buttons)
    THEN [c EXCEPT !.i = @ + 1, !.ret = <<CursorOk>>]
    ELSE [c EXCEPT !.i = @ + 1]

\* An execute that drops the error of a send and goes on with the next name
OnSendErrContinue(c, e) == Advance(c)

\* The `?` after each arm: the error of the send is the result of execute
OnSendErr(c, e) == [c EXCEPT !.ret = <<CursorErr(e)>>]

CursorInit ==
    /\ mode = "cursor"
    /\ client_key = "X"
    /\ command_count = U32Of(0, 0)
    /\ handshake_done = FALSE
    /\ response_channels = <<>>
    /\ ws_tx = 0
    /\ lock = 0
    /\ chan = <<>>
    /\ conns = <<>>
    /\ pc = "idle"
    /\ cur = 0
    /\ ret = NoRet
    /\ ncalls = 0
    /\ nframes = 0
    /\ skipped = 0
    /\ auth = AuthInit
    /\ mac_address = <<>>
    /\ wake = NoWake
    /\ scan = NoScan
    /\ ctor = NoCtor
    /\ \E bs \in ButtonLists :
          cursor = [websocket |-> TRUE, buttons |-> bs, i |-> 0,
                    sent |-> <<>>, ret |-> <<>>]

CursorOthers == <<mode, mac_address, wake, scan, ctor, remoteVars, auth>>

\* execute with an empty list: the possible names are printed, Ok(())
ExecuteEmpty ==
    /\ mode = "cursor"
    /\ cursor.ret = <<>>
    /\ cursor.buttons = <<>>
    /\ cursor' = [cursor EXCEPT !.ret = <<CursorOk>>]
    /\ UNCHANGED CursorOthers

\* One turn of the loop on a recognized name: its frame is sent
ExecuteButton(io) ==
    /\ mode = "cursor"
    /\ cursor.ret = <<>>
    /\ cursor.i < Len(cursor.buttons)
    /\ IsButton(cursor.buttons[cursor.i + 1])
    /\ LET r == send_button(cursor, ButtonData[cursor.buttons[cursor.i + 1]], io)
       IN  cursor' = IF r.res = "Ok"
                     THEN Advance([cursor EXCEPT !.sent = r.sent])
                     ELSE OnSendErr(cursor, r.err)
    /\ UNCHANGED CursorOthers

\* One turn of the loop on any other name: a line is printed, continue
ExecuteSkip ==
    /\ mode = "cursor"
    /\ cursor.ret = <<>>
    /\ cursor.i < Len(cursor.buttons)
    /\ ~IsButton(cursor.buttons[cursor.i + 1])
    /\ cursor' = Advance(cursor)
    /\ UNCHANGED CursorOthers

CursorNext ==
    \/ ExecuteEmpty
    \/ \E io \in SendResults : ExecuteButton(io)
    \/ ExecuteSkip

SpecCursor == CursorInit /\ [][CursorNext]_vars

\* The frames of the recognized names of a list, in the order of the list
FramesOf(bs) ==
    LET names == SelectSeq(bs, IsButton)
    IN  [k \in 1..Len(names) |-> ButtonData[names[k]]]

\* C38: execute sends one button frame for each recognized name of its list,
\* in list order, and nothing for any other name, which it passes over; for
\* an empty list it sends nothing and returns Ok; a send that fails ends the
\* call with that error, the frames of the names from there on unsent.
C38_ExecuteSendsRecognizedInOrder ==
    (mode = "cursor") =>
        /\ cursor.sent = FramesOf(SubSeq(cursor.buttons, 1, cursor.i))
        /\ (cursor.ret # <<>> /\ cursor.ret[1].res = "Ok") =>
               /\ cursor.i = Len(cursor.buttons)
               /\ cursor.sent = FramesOf(cursor.buttons)
        /\ (cursor.ret # <<>> /\ cursor.ret[1].res = "Err") =>
               /\ cursor.i < Len(cursor.buttons)
               /\ IsButton(cursor.buttons[cursor.i + 1])
               /\ cursor.ret[1].err = "WebSocketError"
        /\ (cursor.ret # <<>> /\ cursor.buttons = <<>>) =>
               cursor.ret[1] = CursorOk /\ cursor.sent = <<>>
        /\ (cursor.ret # <<>>) => ~ENABLED CursorNext

\* A call that passed over an unknown name, sent one frame, failed on the
\* next recognized name and left a recognized name unsent
C38_Witness ==
    /\ mode = "cursor"
    /\ cursor.buttons = <<"bogus", "up", "click", "asterisk">>
    /\ cursor.ret = <<CursorErr("WebSocketError")>>
    /\ cursor.sent = <<ButtonData["up"]>>
    /\ cursor.i = 2

====
